---- MODULE Spec2Model ----
(***************************************************************************)
(* The crf search of ab-av1 (src/command/crf_search.rs): run(), the        *)
(* interpolation vmaf_lerp_crf() and the progress estimate               *)
(* guess_progress().                                                       *)
(*                                                                         *)
(* Numbers.  crf values are u8: sums are taken modulo 2^8 where the build  *)
(* wraps, and are a panic where the build checks overflow.  vmaf scores    *)
(* are f32 in the source; here they are integers counting fifths of a vmaf *)
(* point, so that higher_tolerance = run * 0.2 is exactly `run` units and  *)
(* the interpolation is computed in exact rational arithmetic.             *)
(* predicted_encode_percent is an integer percentage.                      *)
(***************************************************************************)
EXTENDS Integers, Sequences, FiniteSets, TLC

\* ---------------------------------------------------------------- bounds
\* configurations take min_crf and max_crf in 0..MaxCrf (and OverflowConfigs)
MaxCrf == 6
\* the loop `for run in 1..` is followed up to this iteration
MaxRun == 5
\* length of the sample progress bar (sample_progress = position / length)
SampleBarLen == 2
\* iterations for which guess_progress is tabulated as a pure function
GuessRuns == 20

\* max_crf of the configurations of FairSpec
FairMaxCrf == 3

\* ------------------------------------------------------ program constants
BAR_LEN == 1000
\* u8 arithmetic: 2^8 values
U8Mod == 256
\* --min-vmaf default 95.0, in fifths of a vmaf point
MinVmaf == 475
\* --max-encoded-percent default 80.0
MaxEncodedPercent == 80
\* --samples default
Samples == 3

\* results a probe can report: vmaf (in fifths) and predicted_encode_percent
VmafValues == {MinVmaf - 4, MinVmaf - 1, MinVmaf, MinVmaf + 1, MinVmaf + 6}
PercentValues == {70, 90}
ProbeOutputs == [vmaf : VmafValues, predicted_encode_percent : PercentValues]

\* the configurations of Spec: min_crf and max_crf in 0..MaxCrf, in either order
Configs == (0..MaxCrf) \X (0..MaxCrf)
\* the configurations of FairSpec: a valid one and an invalid one
FairConfigs == {<<0, FairMaxCrf>>, <<FairMaxCrf, 0>>}
\* a configuration whose u8 sum min_crf + max_crf exceeds 255, added for SpecU8
OverflowConfigs == {<<200, 250>>}

VARIABLES
    min_crf, max_crf,     \* Args.min_crf, Args.max_crf
    pc,                   \* position of run(): "start", "loop", "poll", "done"
    run,                  \* the loop counter of `for run in 1..`
    crf,                  \* args.crf; NoCrf before args is built
    args_samples,         \* args.samples
    quick_3rd_run,
    crf_attempts,         \* Vec<Sample>
    task,                 \* sample_task: "none", "running", "ok", "join_err", "enc_err"
    task_out,             \* the Output a finished task holds
    sample_pos,           \* sample_bar.position()
    bar_pos,              \* bar.position()
    guess,                \* last value guess_progress returned, as num/den
    outcome,              \* how run() ended
    result                \* the Sample run() returned

vars == <<min_crf, max_crf, pc, run, crf, args_samples, quick_3rd_run,
          crf_attempts, task, task_out, sample_pos, bar_pos, guess, outcome, result>>

NoCrf == 0 - 1
NoOut == [vmaf |-> -1, predicted_encode_percent |-> -1]
NoSample == [crf |-> -1, samples |-> 0, vmaf |-> -1, predicted_encode_percent |-> -1]

\* struct Sample { enc, crf, samples }, enc flattened to the two fields run() reads
Sample(c, n, enc) ==
    [crf |-> c, samples |-> n, vmaf |-> enc.vmaf,
     predicted_encode_percent |-> enc.predicted_encode_percent]

\* ------------------------------------------------------------- u8 sums
Overflow == 0 - 1
\* a + b on u8: the sum, or on overflow either the wrapped sum (release build)
\* or a panic (overflow checks on)
Add8(a, b) ==
    IF a + b < U8Mod THEN {a + b} ELSE {(a + b) % U8Mod, Overflow}

\* (a + b) / 2 on u8
Mid8(a, b) == {IF s = Overflow THEN Overflow ELSE s \div 2 : s \in Add8(a, b)}

\* ------------------------------------------------------ vmaf_lerp_crf
\* the assert! at the head of vmaf_lerp_crf
LerpAssert(min_vmaf, worse_q, better_q) ==
    /\ worse_q.vmaf <= min_vmaf
    /\ worse_q.vmaf < better_q.vmaf
    /\ better_q.crf < worse_q.crf

\* f32::round of num/den (den > 0): half away from zero
RoundHalfAway(num, den) ==
    IF num >= 0 THEN (2 * num + den) \div (2 * den)
    ELSE 0 - ((2 * (0 - num) + den) \div (2 * den))

\* `as u8` of a float: saturating
SatU8(x) == IF x < 0 THEN 0 ELSE IF x > U8Mod - 1 THEN U8Mod - 1 ELSE x

Max(a, b) == IF a >= b THEN a ELSE b

\* lerp.max(better_q.crf + 1)
LerpClamp(lerp, worse_q, better_q) == Max(lerp, better_q.crf + 1)

\* the body of vmaf_lerp_crf after the assert:
\*   worse.crf - crf_diff * (min_vmaf - worse.vmaf) / vmaf_diff, rounded
vmaf_lerp_crf(min_vmaf, worse_q, better_q) ==
    LET vmaf_diff == better_q.vmaf - worse_q.vmaf
        crf_diff  == worse_q.crf - better_q.crf
        num       == worse_q.crf * vmaf_diff - crf_diff * (min_vmaf - worse_q.vmaf)
        lerp      == SatU8(RoundHalfAway(num, vmaf_diff))
    IN  LerpClamp(lerp, worse_q, better_q)

\* ------------------------------------------------------ neighbour lookups
\* crf_attempts.iter().filter(|s| s.crf > sample.crf).min_by_key(|s| s.crf):
\* the index of the first attempt of minimal crf above sample.crf, 0 for None
UBound(attempts, sample) ==
    LET above == {i \in 1..Len(attempts) : attempts[i].crf > sample.crf}
    IN  IF above = {} THEN 0
        ELSE CHOOSE i \in above :
                \A j \in above :
                    \/ attempts[i].crf < attempts[j].crf
                    \/ attempts[i].crf = attempts[j].crf /\ i <= j

\* the lookup taking the first attempt of maximal crf (max_by_key takes the last)
LBoundFirst(attempts, sample) ==
    LET below == {i \in 1..Len(attempts) : attempts[i].crf < sample.crf}
    IN  IF below = {} THEN 0
        ELSE CHOOSE i \in below :
                \A j \in below :
                    \/ attempts[i].crf > attempts[j].crf
                    \/ attempts[i].crf = attempts[j].crf /\ i <= j

\* crf_attempts.iter().filter(|s| s.crf < sample.crf).max_by_key(|s| s.crf):
\* the index of the last attempt of maximal crf below sample.crf, 0 for None
LBound(attempts, sample) ==
    LET below == {i \in 1..Len(attempts) : attempts[i].crf < sample.crf}
    IN  IF below = {} THEN 0
        ELSE CHOOSE i \in below :
                \A j \in below :
                    \/ attempts[i].crf > attempts[j].crf
                    \/ attempts[i].crf = attempts[j].crf /\ i >= j

\* ------------------------------------------------------------ decisions
\* what one pass of the loop body decides after the push (lines 153-208):
\* return a Sample, continue with a new args.crf, bail, or panic (a u8 sum
\* overflowed with overflow checks on, or the assert! of vmaf_lerp_crf failed)
Return(s)   == [kind |-> "return", crf |-> s.crf, ret |-> s]
Continue(c) == [kind |-> "continue", crf |-> c, ret |-> NoSample]
Bail        == [kind |-> "bail", crf |-> NoCrf, ret |-> NoSample]
Panic       == [kind |-> "panic", crf |-> NoCrf, ret |-> NoSample]
\* the assert! of vmaf_lerp_crf failed
AssertFailed == [kind |-> "assert", crf |-> NoCrf, ret |-> NoSample]

\* a u8 sum that becomes the next args.crf
ContinueWith(cs) == {IF c = Overflow THEN Panic ELSE Continue(c) : c \in cs}

\* ensure!(min_crf <= max_crf, ...) with the check dropped
ConfigValidAlways(lo, hi) == lo >= 0 /\ hi >= 0

\* ensure!(min_crf <= max_crf, "Invalid --min-crf & --max-crf")
ConfigValid(lo, hi) == lo <= hi

\* sample.enc.vmaf > *min_vmaf
QualityMet(sample) == sample.vmaf > MinVmaf

\* run > 2 && predicted_encode_percent < max_encoded_percent
\*         && vmaf < min_vmaf + higher_tolerance     (higher_tolerance = run * 0.2)
Converged(sample, r) ==
    /\ r > 2
    /\ sample.predicted_encode_percent < MaxEncodedPercent
    /\ sample.vmaf < MinVmaf + r

\* the infeasibility test with && for ||
InfeasibleBoth(sample, lo) ==
    sample.predicted_encode_percent > MaxEncodedPercent /\ sample.crf = lo

\* predicted_encode_percent > max_encoded_percent || sample.crf == *min_crf
Infeasible(sample, lo) ==
    sample.predicted_encode_percent > MaxEncodedPercent \/ sample.crf = lo

\* lines 161-180: the quality-met arm without the convergence shortcut
UpperDecide(attempts, sample, r, hi) ==
    LET u == UBound(attempts, sample)
    IN  IF u # 0
        THEN IF attempts[u].crf = sample.crf + 1
             THEN {Return(sample)}
             ELSE IF LerpAssert(MinVmaf, attempts[u], sample)
                  THEN {Continue(vmaf_lerp_crf(MinVmaf, attempts[u], sample))}
                  ELSE {AssertFailed}
        ELSE IF sample.crf = hi
             THEN {Return(sample)}
             ELSE IF r = 1
                  THEN UNION {IF s1 = Overflow THEN {Panic}
                              ELSE IF s1 < hi THEN ContinueWith(Mid8(sample.crf, hi))
                              ELSE {Continue(hi)} : s1 \in Add8(sample.crf, 1)}
                  ELSE {Continue(hi)}

\* Some(lower) if lower.crf + 1 == sample.crf => return Ok(lower.clone())
ReturnLower(lower, sample) == Return(lower)

\* lines 190-207: the quality-not-met arm after the infeasibility test
LowerDecide(attempts, sample, r, lo) ==
    LET l == LBound(attempts, sample)
    IN  IF l # 0
        THEN IF attempts[l].crf + 1 = sample.crf
             THEN {ReturnLower(attempts[l], sample)}
             ELSE IF LerpAssert(MinVmaf, sample, attempts[l])
                  THEN {Continue(vmaf_lerp_crf(MinVmaf, sample, attempts[l]))}
                  ELSE {AssertFailed}
        ELSE IF r = 1
             THEN UNION {IF s1 = Overflow THEN {Panic}
                         ELSE IF sample.crf > s1 THEN ContinueWith(Mid8(lo, sample.crf))
                         ELSE {Continue(lo)} : s1 \in Add8(lo, 1)}
             ELSE {Continue(lo)}

\* lines 153-208
Decide(attempts, sample, r, lo, hi) ==
    IF QualityMet(sample)
    THEN IF Converged(sample, r) THEN {Return(sample)}
         ELSE UpperDecide(attempts, sample, r, hi)
    ELSE IF Infeasible(sample, lo) THEN {Bail}
         ELSE LowerDecide(attempts, sample, r, lo)

\* ------------------------------------------------------ guess_progress
\* guess_total_samples with the totals 4 and 6 for the first four runs
guess_total_samples_4_6(r, quick) ==
    IF r <= 4 THEN (IF quick THEN 4 ELSE 6)
    ELSE IF quick THEN 3 + (r - 3) * 3 ELSE 2 + (r - 2) * 3

\* let guess_total_samples = match run { ... }
guess_total_samples(r, quick) ==
    IF r <= 4 THEN (IF quick THEN 1 + 1 + 1 + 3 ELSE 1 + 1 + 3 + 3)
    ELSE IF quick THEN 3 + (r - 3) * 3 ELSE 2 + (r - 2) * 3

\* guess_done_samples with run 2 counted like run 1 (the `1.0 +` dropped)
guess_done_samples_run2(r, pos, quick) ==
    IF r = 1 \/ r = 2 THEN pos
    ELSE IF r = 3 /\ quick THEN 2 * SampleBarLen + pos
    ELSE IF quick THEN (3 + (r - 4) * 3) * SampleBarLen + pos * 3
    ELSE (2 + (r - 3) * 3) * SampleBarLen + pos * 3

\* the second match of guess_progress, times the sample bar's length:
\* sample_progress = pos / SampleBarLen
guess_done_samples(r, pos, quick) ==
    IF r = 1 THEN pos
    ELSE IF r = 2 THEN SampleBarLen + pos
    ELSE IF r = 3 /\ quick THEN 2 * SampleBarLen + pos
    ELSE IF quick THEN (3 + (r - 4) * 3) * SampleBarLen + pos * 3
    ELSE (2 + (r - 3) * 3) * SampleBarLen + pos * 3

\* guess_progress(run, sample_progress, quick_3rd_run), the f64 as num/den
guess_progress(r, pos, quick) ==
    [num |-> guess_done_samples(r, pos, quick) * BAR_LEN,
     den |-> guess_total_samples(r, quick) * SampleBarLen]

\* `guess as u64`
AsU64(g) == g.num \div g.den

\* ------------------------------------------------------------- actions
InitWith(configs) ==
    /\ \E cfg \in configs : min_crf = cfg[1] /\ max_crf = cfg[2]
    /\ pc = "start"
    /\ run = 0
    /\ crf = NoCrf
    /\ args_samples = 0
    /\ quick_3rd_run = FALSE
    /\ crf_attempts = <<>>
    /\ task = "none"
    /\ task_out = NoOut
    /\ sample_pos = 0
    /\ bar_pos = 0
    /\ guess = [num |-> 0, den |-> 1]
    /\ outcome = "none"
    /\ result = NoSample

Finish(how, s) ==
    /\ pc' = "done"
    /\ outcome' = how
    /\ result' = s

\* lines 96-111: the ensure!, the first args.crf, the empty history
Begin ==
    /\ pc = "start"
    /\ IF ~ConfigValid(min_crf, max_crf)
       THEN /\ Finish("config_error", NoSample)
            /\ UNCHANGED <<run, crf, args_samples>>
       ELSE \E c \in Mid8(min_crf, max_crf) :
                IF c = Overflow
                THEN /\ Finish("panic", NoSample)
                     /\ UNCHANGED <<run, crf, args_samples>>
                ELSE /\ crf' = c
                     /\ args_samples' = 1
                     /\ run' = 1
                     /\ pc' = "loop"
                     /\ UNCHANGED <<outcome, result>>
    /\ UNCHANGED <<min_crf, max_crf, quick_3rd_run, crf_attempts, task, task_out,
                   sample_pos, bar_pos, guess>>

\* the third run always quick: the arm `3 if ...` without its guard
SpawnQuickThird ==
    /\ pc = "loop"
    /\ run <= MaxRun
    /\ IF run \in {1, 2}
       THEN args_samples' = 1 /\ UNCHANGED quick_3rd_run
       ELSE IF run = 3
            THEN args_samples' = 1 /\ quick_3rd_run' = TRUE
            ELSE args_samples' = Samples /\ UNCHANGED quick_3rd_run
    /\ task' = "running"
    /\ pc' = "poll"
    /\ UNCHANGED <<min_crf, max_crf, run, crf, crf_attempts, task_out, sample_pos,
                   bar_pos, guess, outcome, result>>

\* lines 113-129: the sample count of this run, then spawn_local
Spawn ==
    /\ pc = "loop"
    /\ run <= MaxRun
    /\ IF run \in {1, 2}
       THEN args_samples' = 1 /\ UNCHANGED quick_3rd_run
       ELSE IF run = 3 /\ (crf = min_crf \/ crf = max_crf)
            THEN args_samples' = 1 /\ quick_3rd_run' = TRUE
            ELSE args_samples' = Samples /\ UNCHANGED quick_3rd_run
    /\ task' = "running"
    /\ pc' = "poll"
    /\ UNCHANGED <<min_crf, max_crf, run, crf, crf_attempts, task_out, sample_pos,
                   bar_pos, guess, outcome, result>>

\* sample_encode::run advances the sample bar it was given
ProbeProgress ==
    /\ task = "running"
    /\ sample_pos < SampleBarLen
    /\ sample_pos' = sample_pos + 1
    /\ UNCHANGED <<min_crf, max_crf, pc, run, crf, args_samples, quick_3rd_run,
                   crf_attempts, task, task_out, bar_pos, guess, outcome, result>>

\* the spawned task resolves: an Output, an error of sample_encode, or a JoinError
ProbeResolve ==
    /\ task = "running"
    /\ \/ \E o \in ProbeOutputs : task' = "ok" /\ task_out' = o
       \/ task' = "enc_err" /\ task_out' = NoOut
       \/ task' = "join_err" /\ task_out' = NoOut
    /\ UNCHANGED <<min_crf, max_crf, pc, run, crf, args_samples, quick_3rd_run,
                   crf_attempts, sample_pos, bar_pos, guess, outcome, result>>

\* the position published on every pass of the poll loop, resolved task or not
TickAlways ==
    /\ pc = "poll"
    /\ guess' = guess_progress(run, sample_pos, quick_3rd_run)
    /\ bar_pos' = AsU64(guess')
    /\ UNCHANGED <<min_crf, max_crf, pc, run, crf, args_samples, quick_3rd_run,
                   crf_attempts, task, task_out, sample_pos, outcome, result>>

\* lines 133-138: the timeout elapsed first
Tick ==
    /\ pc = "poll"
    /\ task = "running"
    /\ guess' = guess_progress(run, sample_pos, quick_3rd_run)
    /\ bar_pos' = AsU64(guess')
    /\ UNCHANGED <<min_crf, max_crf, pc, run, crf, args_samples, quick_3rd_run,
                   crf_attempts, task, task_out, sample_pos, outcome, result>>

\* a failed probe spawned again
RetryProbe ==
    /\ pc' = "loop"
    /\ task' = "none"
    /\ UNCHANGED <<run, crf, crf_attempts, outcome, result>>

\* enc: sample_task??  -  either `?` returns the error from run()
PropagateError ==
    /\ Finish(IF task = "join_err" THEN "join_error" ELSE "encode_error", NoSample)
    /\ UNCHANGED <<run, crf, crf_attempts, task>>

\* lines 146-210: build the Sample, push it, decide
Record ==
    LET sample   == Sample(crf, args_samples, task_out)
        attempts == Append(crf_attempts, sample)
    IN  /\ crf_attempts' = attempts
        /\ \E d \in Decide(attempts, sample, run, min_crf, max_crf) :
              IF d.kind = "continue"
              THEN /\ crf' = d.crf
                   /\ run' = run + 1
                   /\ pc' = "loop"
                   /\ task' = "none"
                   /\ UNCHANGED <<outcome, result>>
              ELSE /\ Finish(CASE d.kind = "return" -> "ok"
                               [] d.kind = "bail" -> "infeasible"
                               [] d.kind = "assert" -> "assert_failed"
                               [] OTHER -> "panic", d.ret)
                   /\ UNCHANGED <<run, crf, task>>

\* the poll loop left as soon as the timeout elapses, the task still running
CompleteEarly ==
    /\ pc = "poll"
    /\ sample_pos' = 0
    /\ IF task = "ok" THEN Record ELSE PropagateError
    /\ UNCHANGED <<min_crf, max_crf, args_samples, quick_3rd_run, task_out,
                   bar_pos, guess>>

\* lines 139-210: the task resolved first
Complete ==
    /\ pc = "poll"
    /\ task \in {"ok", "enc_err", "join_err"}
    /\ sample_pos' = 0
    /\ IF task = "ok" THEN Record ELSE PropagateError
    /\ UNCHANGED <<min_crf, max_crf, args_samples, quick_3rd_run, task_out,
                   bar_pos, guess>>

Next == Begin \/ Spawn \/ ProbeProgress \/ ProbeResolve \/ Tick \/ Complete

Init == InitWith(Configs)

Spec == Init /\ [][Next]_vars

\* run() is the future the runtime drives: once the task has resolved, the
\* pending timeout(.., &mut sample_task).await is woken and returns Ok
FairInit == InitWith(FairConfigs)

FairSpec == FairInit /\ [][Next]_vars /\ WF_vars(Complete)

\* the same program started also from the configuration whose sums overflow u8
InitU8 == InitWith(Configs \cup OverflowConfigs)

SpecU8 == InitU8 /\ [][Next]_vars

\* ------------------------------------------------- guess_progress alone
\* guess_progress as a pure function: run and quick_3rd_run are drawn from
\* all their values, sample_progress walks from 0 to 1
GuessInit ==
    /\ run \in 1..GuessRuns
    /\ quick_3rd_run \in BOOLEAN
    /\ sample_pos = 0
    /\ guess = guess_progress(run, 0, quick_3rd_run)
    /\ bar_pos = AsU64(guess)
    /\ pc = "guess"
    /\ min_crf = 0 /\ max_crf = 0 /\ crf = NoCrf /\ args_samples = 0
    /\ crf_attempts = <<>> /\ task = "none" /\ task_out = NoOut
    /\ outcome = "none" /\ result = NoSample

GuessStep ==
    /\ pc = "guess"
    /\ sample_pos < SampleBarLen
    /\ sample_pos' = sample_pos + 1
    /\ guess' = guess_progress(run, sample_pos', quick_3rd_run)
    /\ bar_pos' = AsU64(guess')
    /\ UNCHANGED <<min_crf, max_crf, pc, run, crf, args_samples, quick_3rd_run,
                   crf_attempts, task, task_out, outcome, result>>

SpecGuess == GuessInit /\ [][GuessStep]_vars

\* ---------------------------------------------------------------- claims
Last(seq) == seq[Len(seq)]
InBounds(c) == min_crf <= c /\ c <= max_crf
\* the configuration's sums fit u8
NoWrap == min_crf + max_crf < U8Mod

\* C1: for a valid config (min_crf <= max_crf) every crf a probe is issued
\* for, and the crf of the Sample run() returns, lies in [min_crf, max_crf].
C1_CrfInBounds ==
    ConfigValid(min_crf, max_crf) =>
        /\ pc = "poll" => InBounds(crf)
        /\ outcome = "ok" => InBounds(result.crf)

\* C2: the Sample run() returns has predicted_encode_percent not greater than
\* max_encoded_percent.
C2_ReturnedWithinBudget ==
    outcome = "ok" => result.predicted_encode_percent <= MaxEncodedPercent

\* C3: the Sample run() returns has a vmaf meeting min_vmaf (here in the
\* code's strict sense, vmaf > min_vmaf), whether it is the current sample or
\* the lower neighbour taken from the history.
C3_ReturnedMeetsQuality ==
    outcome = "ok" => QualityMet(result) /\ result.vmaf >= MinVmaf

\* run() returned the lower neighbour, and the history holds two attempts of
\* that crf
C3_Witness ==
    /\ NoWrap
    /\ outcome = "ok"
    /\ result # Last(crf_attempts)
    /\ \E i, j \in 1..Len(crf_attempts) :
          i < j /\ crf_attempts[i].crf = result.crf /\ crf_attempts[j].crf = result.crf

\* the decisions of the next pass if the probe about to be issued answers as
\* the last recorded one did
SameAnswerDecisions ==
    LET s  == Last(crf_attempts)
        s2 == Sample(crf, Samples,
                     [vmaf |-> s.vmaf,
                      predicted_encode_percent |-> s.predicted_encode_percent])
    IN  Decide(Append(crf_attempts, s2), s2, run, min_crf, max_crf)

\* the controller has recorded the same answer for the same crf and sample
\* count twice in a row, has selected that crf again, and will select it once
\* more if the answer stays the same: the history only gains copies of an
\* attempt that neither neighbour lookup returns, so the state repeats
LoopState ==
    /\ pc = "loop"
    /\ run >= 4
    /\ Len(crf_attempts) >= 2
    /\ crf_attempts[Len(crf_attempts) - 1] = Last(crf_attempts)
    /\ crf = Last(crf_attempts).crf
    /\ SameAnswerDecisions = {Continue(crf)}

\* C4: run() reaches a terminal branch after finitely many probes, also when
\* the probe answers the same every time it is asked for the same crf: the
\* search never gets into a state from which the same answer makes it select
\* the same crf over and over.
C4_NoReselectionLoop == ~LoopState

\* C5: no crf is probed twice: a probe is only issued for a crf that no
\* recorded attempt has.
C5_NoCrfProbedTwice ==
    pc = "poll" => \A i \in 1..Len(crf_attempts) : crf_attempts[i].crf # crf

\* C6: with min_crf > max_crf run() fails with the configuration error before
\* anything else: no probe is spawned, no attempt recorded, no args.crf computed.
C6_ConfigErrorBeforeProbe ==
    min_crf > max_crf =>
        /\ pc \in {"start", "done"}
        /\ pc = "done" => outcome = "config_error" /\ result = NoSample
        /\ task = "none"
        /\ crf_attempts = <<>>
        /\ crf = NoCrf
        /\ run = 0

C6_Witness == min_crf > max_crf /\ pc = "done" /\ outcome = "config_error"

\* C7: when the probe just resolved is below min_vmaf and either is over the
\* size budget or was taken at min_crf, the next step of run() is the
\* infeasibility failure, whatever the history holds; nothing is returned and
\* nothing happens after it.
C7_InfeasibleFailsAtOnce ==
    [][/\ ( /\ pc = "poll" /\ task = "ok"
            /\ task_out.vmaf < MinVmaf
            /\ \/ task_out.predicted_encode_percent > MaxEncodedPercent
               \/ crf = min_crf )
          => /\ pc' = "done" /\ outcome' = "infeasible"
             /\ result' = NoSample /\ task' = task
       /\ outcome = "infeasible" => UNCHANGED vars]_vars

\* an infeasibility failure over the size budget, above min_crf, with earlier
\* attempts in the history
C7_Witness ==
    /\ NoWrap
    /\ outcome = "infeasible"
    /\ Len(crf_attempts) >= 2
    /\ Last(crf_attempts).vmaf < MinVmaf
    /\ Last(crf_attempts).crf # min_crf

\* C8: when the probe fails (JoinError or an error of sample_encode), the next
\* step of run() returns that error: no attempt is pushed, nothing is returned,
\* and no probe is issued afterwards.
C8_ProbeFailureIsFatal ==
    [][/\ (pc = "poll" /\ task \in {"enc_err", "join_err"})
          => /\ pc' = "done"
             /\ outcome' = (IF task = "join_err" THEN "join_error" ELSE "encode_error")
             /\ crf_attempts' = crf_attempts
             /\ result' = NoSample /\ task' = task
       /\ outcome \in {"encode_error", "join_error"} => UNCHANGED vars]_vars

\* a probe failed after an earlier one had been recorded
C8_Witness ==
    /\ NoWrap
    /\ pc = "done"
    /\ outcome = "encode_error"
    /\ Len(crf_attempts) >= 1

\* a <= b for two num/den values
GuessLeq(a, b) == a.num * b.den <= b.num * a.den

\* C9: for every run >= 1 and both values of quick_3rd_run, guess_progress is
\* non-decreasing as sample_progress goes from 0 to 1 and never exceeds BAR_LEN.
C9_GuessMonotoneBounded ==
    /\ [](guess.num <= BAR_LEN * guess.den)
    /\ [][GuessLeq(guess, guess')]_vars

\* the estimate of a full fourth run without quick_3rd_run is exactly BAR_LEN
C9_Witness ==
    /\ pc = "guess"
    /\ run = 4 /\ ~quick_3rd_run
    /\ sample_pos = SampleBarLen
    /\ guess.num = BAR_LEN * guess.den

\* C10 as stated: over a whole search the position published to the bar never
\* decreases from one poll to the next.
C10_PositionNeverDecreases == [][bar_pos' >= bar_pos]_vars

\* C10 as amended: through the polls of runs 1 to 4 the published position
\* never decreases, across runs and when quick_3rd_run becomes true.
C10_PositionMonotoneToRun4 == [][run' <= 4 => bar_pos' >= bar_pos]_vars

\* a full bar published in run 4 after a quick third run
C10_Witness == run = 4 /\ quick_3rd_run /\ pc = "poll" /\ bar_pos = BAR_LEN

\* the probe of this run resolved with an Output and run() is about to record it
Resolved == pc = "poll" /\ task = "ok"
\* the Sample the next Record step pushes
Current == Sample(crf, args_samples, task_out)

\* C11: an attempt with vmaf >= min_vmaf is handled by the quality-met arm
\* (run() returns it or moves to a greater crf), so the search fails as
\* infeasible only on an attempt whose vmaf is strictly below min_vmaf.
C11_MetIffAtLeast ==
    [][(Resolved /\ task_out.vmaf >= MinVmaf) =>
          /\ outcome' # "infeasible"
          /\ outcome' = "ok" => result' = Current
          /\ pc' = "loop" => crf' > crf]_vars

\* C12: every call run() makes to vmaf_lerp_crf satisfies the function's
\* assert!, whatever the probes report: the search never ends on the failed
\* assertion.
C12_LerpAssertHolds == outcome # "assert_failed"

\* ------------------------------------------------- vmaf_lerp_crf alone
\* vmaf_lerp_crf as a pure function: crf_attempts holds the arguments
\* <<worse_q, better_q>>, crf receives the result.  The arguments are the ones
\* run() passes when the probes order quality as the precondition says:
\* worse_q.vmaf <= min_vmaf < better_q.vmaf, and the two crfs not adjacent
\* (adjacent neighbours return before the call).
LerpInit ==
    /\ \E wc \in 0..MaxCrf, bc \in 0..MaxCrf, wv \in VmafValues, bv \in VmafValues,
          wp \in PercentValues, bp \in PercentValues :
          /\ bc + 1 < wc
          /\ wv <= MinVmaf /\ MinVmaf < bv
          /\ crf_attempts =
                 <<Sample(wc, 1, [vmaf |-> wv, predicted_encode_percent |-> wp]),
                   Sample(bc, 1, [vmaf |-> bv, predicted_encode_percent |-> bp])>>
    /\ pc = "lerp"
    /\ crf = NoCrf
    /\ min_crf = 0 /\ max_crf = MaxCrf /\ run = 0 /\ args_samples = 0
    /\ quick_3rd_run = FALSE /\ task = "none" /\ task_out = NoOut
    /\ sample_pos = 0 /\ bar_pos = 0 /\ guess = [num |-> 0, den |-> 1]
    /\ outcome = "none" /\ result = NoSample

LerpStep ==
    /\ pc = "lerp"
    /\ IF LerpAssert(MinVmaf, crf_attempts[1], crf_attempts[2])
       THEN /\ crf' = vmaf_lerp_crf(MinVmaf, crf_attempts[1], crf_attempts[2])
            /\ UNCHANGED outcome
       ELSE /\ outcome' = "assert_failed"
            /\ UNCHANGED crf
    /\ pc' = "lerped"
    /\ UNCHANGED <<min_crf, max_crf, run, args_samples, quick_3rd_run, crf_attempts,
                   task, task_out, sample_pos, bar_pos, guess, result>>

SpecLerp == LerpInit /\ [][LerpStep]_vars

\* the value vmaf_lerp_crf rounds to, before lerp.max(better_q.crf + 1)
LerpRounded(worse_q, better_q) ==
    LET vmaf_diff == better_q.vmaf - worse_q.vmaf
        crf_diff  == worse_q.crf - better_q.crf
        num       == worse_q.crf * vmaf_diff - crf_diff * (MinVmaf - worse_q.vmaf)
    IN  SatU8(RoundHalfAway(num, vmaf_diff))

\* C13: for arguments satisfying the precondition the crf vmaf_lerp_crf
\* returns is greater than better_q.crf, and it is less than worse_q.crf
\* unless the lower clamp lerp.max(better_q.crf + 1) raised it.
C13_LerpStrictlyBetween ==
    pc = "lerped" =>
        /\ outcome = "none"
        /\ crf > crf_attempts[2].crf
        /\ \/ crf < crf_attempts[1].crf
           \/ LerpRounded(crf_attempts[1], crf_attempts[2]) < crf_attempts[2].crf + 1

\* ------------------------------------------------------------ sequencing
\* C14: probes are strictly sequential.  A probe is issued only when none is
\* in flight and every earlier probe's Sample is in crf_attempts (probe number
\* `run` is issued with run - 1 attempts recorded); run() leaves the poll loop
\* only once the probe has resolved; and args.crf changes only in the step
\* that appends the resolved probe's Sample to crf_attempts.
C14_ProbesSequential ==
    [][/\ (task' = "running" /\ task # "running") =>
             /\ pc = "loop" /\ task = "none"
             /\ Len(crf_attempts) = run - 1
       /\ (pc = "poll" /\ pc' # "poll") => task # "running"
       /\ (pc # "start" /\ crf' # crf) =>
             /\ Resolved
             /\ crf_attempts' = Append(crf_attempts, Current)]_vars

\* the third probe is in flight, the first two are recorded
C14_Witness ==
    /\ pc = "poll" /\ task = "running" /\ run = 3
    /\ Len(crf_attempts) = 2
    /\ NoWrap

\* C15: while the probe is in flight a tick publishes guess_progress(run,
\* sample_progress, quick_3rd_run) and run() keeps waiting; once the probe has
\* resolved no further position is published and the next step of run()
\* leaves the poll loop, appending the probe's Sample when it resolved with
\* an Output; and a resolved probe is eventually taken out of the poll loop.
C15_PollLoop ==
    /\ [][(pc = "poll" /\ task = "running" /\ guess' # guess) =>
             /\ guess' = guess_progress(run, sample_pos, quick_3rd_run)
             /\ bar_pos' = AsU64(guess')
             /\ pc' = "poll" /\ task' = "running"]_vars
    /\ [][(pc = "poll" /\ task # "running") =>
             /\ guess' = guess /\ bar_pos' = bar_pos
             /\ pc' # "poll"
             /\ task = "ok" => crf_attempts' = Append(crf_attempts, Current)]_vars
    /\ (pc = "poll" /\ task # "running") ~> (pc # "poll")

\* a position was published during the first probe, the probe resolved and
\* its Sample is recorded
C15_Witness ==
    /\ pc = "loop" /\ run = 2
    /\ bar_pos > 0
    /\ Len(crf_attempts) = 1

\* ---------------------------------------------------------- sample count
\* the sample count of probe number i at crf c, as the claim states it
ExpectedSamples(i, c) ==
    IF i <= 2 THEN 1
    ELSE IF i = 3 /\ (c = min_crf \/ c = max_crf) THEN 1
    ELSE Samples

\* the crf of the third probe once it is issued, NoCrf before
ThirdCrf ==
    IF Len(crf_attempts) >= 3 THEN crf_attempts[3].crf
    ELSE IF run = 3 /\ pc # "loop" THEN crf
    ELSE NoCrf

\* C16: probes 1 and 2 use 1 sample; probe 3 uses 1 sample and sets
\* quick_3rd_run exactly when its crf is min_crf or max_crf; every other probe
\* uses the configured sample count.  quick_3rd_run is false until the third
\* probe is issued and from then on keeps the value it got there.
C16_SampleCount ==
    /\ \A i \in 1..Len(crf_attempts) :
           crf_attempts[i].samples = ExpectedSamples(i, crf_attempts[i].crf)
    /\ pc = "poll" => args_samples = ExpectedSamples(run, crf)
    /\ quick_3rd_run <=> (ThirdCrf = min_crf \/ ThirdCrf = max_crf)

\* a quick third probe at max_crf was followed by a fourth with all samples,
\* quick_3rd_run still set
C16_Witness ==
    /\ NoWrap
    /\ pc = "poll" /\ run = 4
    /\ quick_3rd_run /\ crf_attempts[3].crf = max_crf
    /\ crf_attempts[3].samples = 1
    /\ args_samples = Samples

\* ------------------------------------------------------------ bisection
\* C17: with u8 crfs, for every valid configuration the first candidate is
\* floor((min_crf + max_crf) / 2) and the candidate bisected after the first
\* probe is floor((crf + max_crf) / 2) resp. floor((min_crf + crf) / 2); no
\* sum overflows (a panic) or wraps.
C17_MidpointsExact ==
    ConfigValid(min_crf, max_crf) =>
        /\ outcome # "panic"
        /\ (run = 1 /\ pc \in {"loop", "poll"}) =>
               crf = (min_crf + max_crf) \div 2
        /\ (run = 2 /\ pc \in {"loop", "poll"}) =>
               LET s == crf_attempts[1]
               IN  /\ (QualityMet(s) /\ s.crf + 1 < max_crf) =>
                          crf = (s.crf + max_crf) \div 2
                   /\ (~QualityMet(s) /\ s.crf > min_crf + 1) =>
                          crf = (min_crf + s.crf) \div 2

\* C18: when the resolved attempt has no recorded neighbour on the side the
\* search moves toward (the history holds no greater crf after a quality-met
\* attempt that is not accepted by the convergence shortcut, no smaller crf
\* after a feasible not-met attempt): a quality-met attempt at max_crf is
\* returned; on run 1 with more than one crf of room the next candidate is
\* the midpoint between the attempt and the bound; otherwise the next
\* candidate is the bound itself, max_crf resp. min_crf.
C18_NoNeighbourCandidates ==
    [][Resolved =>
          LET s == Current
              a == Append(crf_attempts, s)
          IN  /\ (QualityMet(s) /\ ~Converged(s, run) /\ UBound(a, s) = 0) =>
                     IF s.crf = max_crf
                     THEN outcome' = "ok" /\ result' = s
                     ELSE /\ pc' = "loop"
                          /\ crf' = IF run = 1 /\ s.crf + 1 < max_crf
                                    THEN (s.crf + max_crf) \div 2
                                    ELSE max_crf
              /\ (~QualityMet(s) /\ ~Infeasible(s, min_crf) /\ LBound(a, s) = 0) =>
                     /\ pc' = "loop"
                     /\ crf' = IF run = 1 /\ s.crf > min_crf + 1
                               THEN (min_crf + s.crf) \div 2
                               ELSE min_crf]_vars

\* ------------------------------------------------------------ bracketing
\* run() returned through one of the two adjacent-neighbour arms: the current
\* sample with its upper neighbour at crf + 1, or the lower neighbour at
\* crf - 1 of a not-met sample
ReturnedAdjacent ==
    /\ outcome = "ok"
    /\ LET s == Last(crf_attempts)
           u == UBound(crf_attempts, s)
       IN  \/ /\ result = s /\ ~Converged(s, run)
              /\ u # 0 /\ crf_attempts[u].crf = s.crf + 1
           \/ /\ result # s
              /\ result.crf + 1 = s.crf

\* C20: a crf returned through an adjacent-neighbour arm is bracketed: the
\* history holds the returned quality-met attempt at c and a not-met attempt
\* at c + 1.  After a quality-met attempt at g every later candidate is
\* greater than g, so every attempt above a quality-met attempt that was
\* recorded before it is not-met.
C20_Bracketed ==
    /\ ReturnedAdjacent =>
           /\ QualityMet(result)
           /\ \E i \in 1..Len(crf_attempts) : crf_attempts[i] = result
           /\ \E i \in 1..Len(crf_attempts) :
                  /\ crf_attempts[i].crf = result.crf + 1
                  /\ ~QualityMet(crf_attempts[i])
    /\ \A i \in 1..Len(crf_attempts) :
           QualityMet(crf_attempts[i]) =>
               /\ \A j \in (i + 1)..Len(crf_attempts) :
                      crf_attempts[j].crf > crf_attempts[i].crf
               /\ pc \in {"loop", "poll"} => crf > crf_attempts[i].crf
               /\ \A j \in 1..(i - 1) :
                      crf_attempts[j].crf > crf_attempts[i].crf =>
                          ~QualityMet(crf_attempts[j])

\* ------------------------------------------------- guess_progress, units
\* the weight of probe number i in sample units
UnitWeight(i, quick) == IF i <= 2 \/ (i = 3 /\ quick) THEN 1 ELSE 3

RECURSIVE UnitsBefore(_, _)
\* the units of the probes before probe number r
UnitsBefore(r, quick) ==
    IF r <= 1 THEN 0 ELSE UnitsBefore(r - 1, quick) + UnitWeight(r - 1, quick)

\* extra iterations beyond the fourth
Beyond4(r) == IF r > 4 THEN r - 4 ELSE 0

\* guess_progress(run, sample_progress, quick_3rd_run) divides by `total`
\* units and counts the weights the claim gives (guess holds the quotient as
\* num/den with sample_progress = sample_pos / SampleBarLen)
GuessUnits(total) ==
    pc = "guess" =>
        /\ guess.den = total * SampleBarLen
        /\ guess.num = (UnitsBefore(run, quick_3rd_run) * SampleBarLen
                        + UnitWeight(run, quick_3rd_run) * sample_pos) * BAR_LEN

\* C19 as stated: the guessed total is 4 units (quick third run) or 6 units
\* for iterations 1 to 4 and grows by 3 per iteration beyond the fourth; the
\* completed units weigh 1 for iterations 1-2 (and 3 when quick), 3 otherwise.
C19_Totals4And6 ==
    GuessUnits((IF quick_3rd_run THEN 4 ELSE 6) + 3 * Beyond4(run))

\* C19 amended: the same with the totals 6 units (quick third run) and 8 units.
C19_Totals6And8 ==
    GuessUnits((IF quick_3rd_run THEN 6 ELSE 8) + 3 * Beyond4(run))

\* the sixth iteration of a quick search, its probe complete: 12 of 12 units
C19_Witness ==
    /\ pc = "guess" /\ run = 6 /\ quick_3rd_run
    /\ sample_pos = SampleBarLen
    /\ guess.den = 12 * SampleBarLen
    /\ guess.num = guess.den * BAR_LEN

====
